---- MODULE Spec2Model ----
(***************************************************************************)
(* A model of the document extraction pipeline of                          *)
(* python-services/app/services/ai_extraction.py (AIExtractionService).    *)
(*                                                                         *)
(* One extraction call is followed from its entry point to the envelope it *)
(* returns.  The external collaborators (storage fetch, OCR service, LLM)  *)
(* answer nondeterministically.                                            *)
(*                                                                         *)
(* Strings are sequences of one-character strings.  Texts whose length     *)
(* matters (500 / 5,000 / 15,000 characters) are run-length encoded: a     *)
(* text is a sequence of runs [c |-> character, n |-> repetitions] in      *)
(* canonical form (no empty run, no two adjacent runs of one character).   *)
(***************************************************************************)
EXTENDS Integers, Sequences, FiniteSets, TLC

----------------------------------------------------------------------------
(* Python values *)

\* Optional[str]: None, or a text
None == [some |-> FALSE]
Some(t) == [some |-> TRUE, v |-> t]

----------------------------------------------------------------------------
(* Run-length encoded texts *)

Run(c, n) == [c |-> c, n |-> n]

\* a + b on str: the last run of a and the first run of b merge when they
\* repeat one character
Concat(a, b) ==
    IF a = <<>> THEN b
    ELSE IF b = <<>> THEN a
    ELSE IF a[Len(a)].c = b[1].c
    THEN SubSeq(a, 1, Len(a) - 1) \o <<Run(b[1].c, a[Len(a)].n + b[1].n)>> \o SubSeq(b, 2, Len(b))
    ELSE a \o b

RECURSIVE CharsRange(_, _, _)
\* the text of the characters s[lo..hi]
CharsRange(s, lo, hi) ==
    IF lo > hi THEN <<>>
    ELSE IF lo = hi THEN <<Run(s[lo], 1)>>
    ELSE Concat(CharsRange(s, lo, (lo + hi) \div 2), CharsRange(s, ((lo + hi) \div 2) + 1, hi))

\* the text of a string given as a sequence of characters
Chars(s) == CharsRange(s, 1, Len(s))

RECURSIVE LenRange(_, _, _)
\* the number of characters of the runs t[lo..hi]
LenRange(t, lo, hi) ==
    IF lo > hi THEN 0
    ELSE IF lo = hi THEN t[lo].n
    ELSE LenRange(t, lo, (lo + hi) \div 2) + LenRange(t, ((lo + hi) \div 2) + 1, hi)

\* the number of characters of the first k runs of t
LenUpTo(t, k) == LenRange(t, 1, k)

\* len(text)
TextLen(t) == LenUpTo(t, Len(t))

\* str.isspace for one character
IsSpace(c) == c \in {" ", "\n", "\t"}

\* str.strip(): without the leading and the trailing runs of white space
StripText(t) ==
    LET solid == {i \in 1..Len(t) : ~IsSpace(t[i].c)}
    IN  IF solid = {} THEN <<>>
        ELSE SubSeq(t, CHOOSE i \in solid : \A j \in solid : i <= j,
                       CHOOSE i \in solid : \A j \in solid : j <= i)

\* text[:k]: the runs that end within the first k characters, then the part
\* of the next run that fits
Slice(t, k) ==
    LET whole == {i \in 0..Len(t) : LenUpTo(t, i) <= k}
        last == CHOOSE i \in whole : \A j \in whole : j <= i
    IN  IF k <= 0 THEN <<>>
        ELSE IF last = Len(t) \/ LenUpTo(t, last) = k THEN SubSeq(t, 1, last)
        ELSE SubSeq(t, 1, last) \o <<Run(t[last + 1].c, k - LenUpTo(t, last))>>

RECURSIVE JoinRange(_, _, _, _)
JoinRange(sep, parts, lo, hi) ==
    IF lo > hi THEN <<>>
    ELSE IF lo = hi THEN parts[lo]
    ELSE Concat(Concat(JoinRange(sep, parts, lo, (lo + hi) \div 2), sep),
                JoinRange(sep, parts, ((lo + hi) \div 2) + 1, hi))

\* sep.join(parts), parts a sequence of texts
JoinText(sep, parts) == JoinRange(sep, parts, 1, Len(parts))

\* bool(raw_text): None and "" are falsy
Truthy(o) == o.some /\ TextLen(o.v) > 0

----------------------------------------------------------------------------
(* Strings as sequences of characters *)

\* s.startswith(p)
StartsWith(s, p) == Len(s) >= Len(p) /\ SubSeq(s, 1, Len(p)) = p

\* sub in s
Contains(s, sub) ==
    \E i \in 1..(Len(s) - Len(sub) + 1) : SubSeq(s, i, i + Len(sub) - 1) = sub

\* s.find(c) + 1 for a character c: the first position of c in s, 0 if none
Find(s, c) ==
    IF \E i \in 1..Len(s) : s[i] = c
    THEN CHOOSE i \in 1..Len(s) : s[i] = c /\ \A j \in 1..(i - 1) : s[j] # c
    ELSE 0

\* s.rfind(c) + 1: the last position of c in s, 0 if none
RFind(s, c) ==
    IF \E i \in 1..Len(s) : s[i] = c
    THEN CHOOSE i \in 1..Len(s) : s[i] = c /\ \A j \in (i + 1)..Len(s) : s[j] # c
    ELSE 0

\* s[i:] with i counted from 1
From(s, i) == SubSeq(s, i, Len(s))

\* s.split(c)[0]
BeforeFirst(s, c) == IF Find(s, c) = 0 THEN s ELSE SubSeq(s, 1, Find(s, c) - 1)

RECURSIVE LStripChar(_, _)
\* s.lstrip(c)
LStripChar(s, c) == IF s # <<>> /\ Head(s) = c THEN LStripChar(Tail(s), c) ELSE s

RECURSIVE RStripChar(_, _)
RStripChar(s, c) ==
    IF s # <<>> /\ s[Len(s)] = c THEN RStripChar(SubSeq(s, 1, Len(s) - 1), c) ELSE s

UpperCase == <<"A", "B", "C", "D", "E", "F", "G", "H", "I", "J", "K", "L", "M",
               "N", "O", "P", "Q", "R", "S", "T", "U", "V", "W", "X", "Y", "Z">>
LowerCase == <<"a", "b", "c", "d", "e", "f", "g", "h", "i", "j", "k", "l", "m",
               "n", "o", "p", "q", "r", "s", "t", "u", "v", "w", "x", "y", "z">>

LowerChar(c) == IF Find(UpperCase, c) = 0 THEN c ELSE LowerCase[Find(UpperCase, c)]

\* s.lower()
Lower(s) == [i \in 1..Len(s) |-> LowerChar(s[i])]

\* PurePath(s).name: the last component of the path; components are separated
\* by "/", trailing separators are dropped and a lone "." component is no name
PathName(s) ==
    LET t == RStripChar(s, "/")
        n == From(t, RFind(t, "/") + 1)
    IN  IF n = <<".">> THEN <<>> ELSE n

\* PurePath(s).suffix: from the last "." of the name, unless that "." opens or
\* closes the name
PathSuffix(s) ==
    LET name == PathName(s)
        i == RFind(name, ".")
    IN  IF 1 < i /\ i < Len(name) THEN From(name, i) ELSE <<>>

\* urllib.parse.urlparse(url): the part after "scheme://" up to the first "/",
\* "?" or "#" is the network location, what follows up to "?" or "#" the path
UrlRest(url) ==
    LET i == Find(url, ":")
    IN  IF i > 0 /\ StartsWith(From(url, i + 1), <<"/", "/">>)
        THEN From(url, i + 3) ELSE <<>>

UrlHasNetloc(url) == Find(url, ":") > 0 /\ StartsWith(From(url, Find(url, ":") + 1), <<"/", "/">>)

UrlNetloc(url) == BeforeFirst(BeforeFirst(BeforeFirst(UrlRest(url), "/"), "?"), "#")

\* urlparse(url).hostname: the network location without user info and port,
\* in lower case; None (here <<>>) when there is none
UrlHostname(url) ==
    LET noUser == From(UrlNetloc(url), RFind(UrlNetloc(url), "@") + 1)
    IN  Lower(BeforeFirst(noUser, ":"))

\* urlparse(url).path
UrlPath(url) ==
    LET rest == IF UrlHasNetloc(url)
                THEN From(UrlRest(url), Len(UrlNetloc(url)) + 1)
                ELSE IF Find(url, ":") > 0 THEN From(url, Find(url, ":") + 1) ELSE url
    IN  BeforeFirst(BeforeFirst(rest, "?"), "#")

----------------------------------------------------------------------------
(* Helper methods of the service *)

\* settings.aws_s3_bucket, the bucket the service is configured with
s3_bucket == <<"b">>

\* a variant of _get_extension that leaves the query string in place
GetExtensionKeepQuery(file_url) == Lower(PathSuffix(file_url))

\* _get_extension(file_url)
_get_extension(file_url) == Lower(PathSuffix(BeforeFirst(file_url, "?")))

\* Path(filename).suffix.lower() of extract_from_bytes
FilenameExtension(filename) == Lower(PathSuffix(filename))

S3Scheme == <<"s", "3", ":", "/", "/">>

\* _parse_s3_key(file_url)
_parse_s3_key(file_url) ==
    IF StartsWith(file_url, S3Scheme)
    THEN LET rest == From(file_url, 6)
         IN  IF Find(rest, "/") = 0 THEN <<>> ELSE From(rest, Find(rest, "/") + 1)
    ELSE IF Contains(file_url, <<"s", "3", ".", "a", "m", "a", "z", "o", "n", "a", "w", "s", ".", "c", "o", "m">>)
    THEN LStripChar(UrlPath(file_url), "/")
    ELSE file_url

\* The request _download_file(file_url) sends: a storage read of (bucket, key),
\* or a plain HTTP GET of the url
DownloadRequest(file_url) ==
    IF StartsWith(file_url, S3Scheme)
    THEN [via |-> "s3", bucket |-> s3_bucket, key |-> _parse_s3_key(file_url)]
    ELSE IF Contains(file_url, <<"s", "3", ".">>) /\ Contains(file_url, <<"a", "m", "a", "z", "o", "n", "a", "w", "s", ".", "c", "o", "m">>)
    THEN [via |-> "s3",
          bucket |-> BeforeFirst(UrlHostname(file_url), "."),
          key |-> LStripChar(UrlPath(file_url), "/")]
    ELSE [via |-> "http", url |-> file_url]

\* The document location _extract_pdf_with_textract(file_url) submits
TextractLocation(file_url) ==
    [bucket |-> BeforeFirst(UrlHostname(file_url), "."),
     key |-> LStripChar(UrlPath(file_url), "/")]

\* The document location _extract_image(file_url) asks the OCR service to read
ImageLocation(file_url) == [bucket |-> s3_bucket, key |-> _parse_s3_key(file_url)]

----------------------------------------------------------------------------
(* Extensions and locators *)

ExtXlsx == <<".", "x", "l", "s", "x">>
ExtXls == <<".", "x", "l", "s">>
ExtDocx == <<".", "d", "o", "c", "x">>
ExtDoc == <<".", "d", "o", "c">>
ExtPdf == <<".", "p", "d", "f">>
ExtPng == <<".", "p", "n", "g">>
ExtJpg == <<".", "j", "p", "g">>
ExtJpeg == <<".", "j", "p", "e", "g">>
ExtTxt == <<".", "t", "x", "t">>

\* The three locator forms: store scheme, HTTPS URL whose host names the bucket
\* and region, generic HTTPS URL
StorePrefix == <<"s", "3", ":", "/", "/", "b", "/">>
BucketHostPrefix == <<"h", "t", "t", "p", "s", ":", "/", "/", "b", ".", "s", "3", ".", "r", ".", "a", "m", "a", "z", "o", "n", "a", "w", "s", ".", "c", "o", "m", "/">>
PlainPrefix == <<"h", "t", "t", "p", "s", ":", "/", "/", "h", ".", "i", "o", "/">>

Prefixes == {StorePrefix, BucketHostPrefix, PlainPrefix}

Extensions == {ExtXlsx, ExtXls, ExtDocx, ExtDoc, ExtPdf, ExtPng, ExtJpg, ExtJpeg, ExtTxt, <<>>}

\* file names "k<ext>"
Filenames == {<<"k">> \o e : e \in Extensions}

Locators == {p \o f : p \in Prefixes, f \in Filenames}

----------------------------------------------------------------------------
(* Documents: the byte content of a file, given by what the parsing library  *)
(* of each format reads from it.  A library raises on bytes of another       *)
(* format, on corrupt bytes and on no bytes at all (fmt "other").            *)

\* cell values of a sheet (openpyxl, data_only): None, str, int, bool, datetime
CNone == [t |-> "none"]
CStr(s) == [t |-> "str", s |-> s]
CInt(i) == [t |-> "int", i |-> i]
CBool(b) == [t |-> "bool", b |-> b]
CDate(y, m, d) == [t |-> "date", y |-> y, m |-> m, d |-> d]

\* bool(cell.value)
CellTruthy(v) ==
    CASE v.t = "none" -> FALSE
      [] v.t = "str" -> v.s # <<>>
      [] v.t = "int" -> v.i # 0
      [] v.t = "bool" -> v.b
      [] v.t = "date" -> TRUE

DigitChars == <<"0", "1", "2", "3", "4", "5", "6", "7", "8", "9">>

RECURSIVE NatStr(_)
\* str(n) for an int n >= 0
NatStr(n) == IF n < 10 THEN <<DigitChars[n + 1]>> ELSE NatStr(n \div 10) \o <<DigitChars[(n % 10) + 1]>>

\* "%02d" % n
Pad2(n) == IF n < 10 THEN <<"0">> \o NatStr(n) ELSE NatStr(n)

\* val.strftime("%Y-%m-%d")
DateStr(v) == NatStr(v.y) \o <<"-">> \o Pad2(v.m) \o <<"-">> \o Pad2(v.d)

\* str(cell.value)
CellStr(v) ==
    CASE v.t = "none" -> <<"N", "o", "n", "e">>
      [] v.t = "str" -> v.s
      [] v.t = "int" -> IF v.i < 0 THEN <<"-">> \o NatStr(0 - v.i) ELSE NatStr(v.i)
      [] v.t = "bool" -> IF v.b THEN <<"T", "r", "u", "e">> ELSE <<"F", "a", "l", "s", "e">>
      [] v.t = "date" -> DateStr(v) \o <<" ", "0", "0", ":", "0", "0", ":", "0", "0">>

\* _extract_pdf_from_bytes(content): the truthy page texts joined by a blank
\* line; None when pdfplumber cannot open the bytes
_extract_pdf_from_bytes(content) ==
    IF content.fmt = "pdf"
    THEN Some(JoinText(Chars(<<"\n", "\n">>),
                       SelectSeq(content.pages, LAMBDA pg : TextLen(pg) > 0)))
    ELSE None

\* _extract_word_from_bytes(content): the paragraphs that are not blank, one
\* per line; None when python-docx cannot open the bytes
_extract_word_from_bytes(content) ==
    IF content.fmt = "docx"
    THEN Some(JoinText(Chars(<<"\n">>),
                       SelectSeq(content.paragraphs, LAMBDA para : StripText(para) # <<>>)))
    ELSE None

\* row_values of one row: str(cell.value) if cell.value else ""
RowValues(row) == [i \in 1..Len(row) |-> IF CellTruthy(row[i]) THEN CellStr(row[i]) ELSE <<>>]

\* " | ".join(row_values)
RowLine(row) ==
    JoinText(Chars(<<" ", "|", " ">>), [i \in 1..Len(row) |-> Chars(RowValues(row)[i])])

\* the lines of one sheet: the marker line, then one line per row with a
\* non-empty row value
SheetLines(sheet) ==
    LET kept == SelectSeq(sheet.rows, LAMBDA row : \E i \in 1..Len(row) : RowValues(row)[i] # <<>>)
    IN  <<Chars(<<"=", "=", "=", " ", "S", "h", "e", "e", "t", ":", " ">> \o sheet.name \o <<" ", "=", "=", "=">>)>>
        \o [i \in 1..Len(kept) |-> RowLine(kept[i])]

RECURSIVE WorkbookLines(_)
WorkbookLines(sheets) ==
    IF sheets = <<>> THEN <<>> ELSE SheetLines(Head(sheets)) \o WorkbookLines(Tail(sheets))

\* _extract_excel_from_bytes(content); None when openpyxl cannot load the bytes
_extract_excel_from_bytes(content) ==
    IF content.fmt = "xlsx"
    THEN Some(JoinText(Chars(<<"\n">>), WorkbookLines(content.sheets)))
    ELSE None

----------------------------------------------------------------------------
(* Python values of the returned data: None, str, number, list, dict *)

PyNull == [t |-> "null"]
PyStr(text) == [t |-> "str", s |-> text]
PyNum(x) == [t |-> "num", x |-> x]
PyList(l) == [t |-> "list", l |-> l]
PyDict(d) == [t |-> "dict", d |-> d]

\* d[key] = value on a dict
DictSet(d, key, value) ==
    [k \in DOMAIN d \cup {key} |-> IF k = key THEN value ELSE d[k]]

----------------------------------------------------------------------------
(* The heuristic milestone parser of _extract_milestones_from_excel *)

\* the number of leading rows scanned for a header row
HeaderScanRows == 10

RECURSIVE StripChars(_)
\* str.strip() on a sequence of characters
StripChars(s) ==
    IF s # <<>> /\ IsSpace(Head(s)) THEN StripChars(Tail(s))
    ELSE IF s # <<>> /\ IsSpace(s[Len(s)]) THEN StripChars(SubSeq(s, 1, Len(s) - 1))
    ELSE s

\* values of a scanned row: str(cell.value).lower() if cell.value else ""
HeaderValues(row) ==
    [i \in 1..Len(row) |-> IF CellTruthy(row[i]) THEN Lower(CellStr(row[i])) ELSE <<>>]

IsHeaderRow(row) ==
    \E i \in 1..Len(row) :
        \/ Contains(HeaderValues(row)[i], <<"m", "i", "l", "e", "s", "t", "o", "n", "e">>)
        \/ Contains(HeaderValues(row)[i], <<"p", "a", "y", "m", "e", "n", "t">>)
        \/ Contains(HeaderValues(row)[i], <<"d", "e", "s", "c", "r", "i", "p", "t", "i", "o", "n">>)

\* a variant of the header scan that looks at every row of the sheet
HeaderRowAnywhere(rows) ==
    IF \E i \in 1..Len(rows) : IsHeaderRow(rows[i])
    THEN CHOOSE i \in 1..Len(rows) : IsHeaderRow(rows[i]) /\ \A j \in 1..(i - 1) : ~IsHeaderRow(rows[j])
    ELSE 0

\* header_row: the 1-based index of the first header row among the scanned
\* rows, 0 (None) when there is none
HeaderRow(rows) ==
    LET scanned == 1..(IF Len(rows) < HeaderScanRows THEN Len(rows) ELSE HeaderScanRows)
    IN  IF \E i \in scanned : IsHeaderRow(rows[i])
        THEN CHOOSE i \in scanned : IsHeaderRow(rows[i]) /\ \A j \in 1..(i - 1) : ~IsHeaderRow(rows[j])
        ELSE 0

\* the largest percentage taken from a numeric cell
MaxPercentage == 100

\* isinstance(val, (int, float)): bool is an int in Python
IsNumber(v) == v.t \in {"int", "bool"}
NumberOf(v) == IF v.t = "bool" THEN (IF v.b THEN 1 ELSE 0) ELSE v.i

\* the shortest string taken as a title has more than this many characters
MinTitleLen == 3

\* one step of the loop over the cells of a data row; m is the milestone dict
\* built so far, a function on the keys found
ClassifyCell(m, val) ==
    IF val.t = "none" THEN m
    ELSE IF (("title" \notin DOMAIN m) \/ m["title"] = <<>>) /\ val.t = "str" /\ Len(val.s) > MinTitleLen
    THEN DictSet(m, "title", StripChars(val.s))
    ELSE IF IsNumber(val) /\ 0 < NumberOf(val) /\ NumberOf(val) <= MaxPercentage
    THEN (IF "payment_percentage" \notin DOMAIN m
          THEN DictSet(m, "payment_percentage", NumberOf(val)) ELSE m)
    ELSE IF val.t = "date"
    THEN (IF "expected_date" \notin DOMAIN m
          THEN DictSet(m, "expected_date", DateStr(val)) ELSE m)
    ELSE m

RECURSIVE ClassifyRow(_, _)
ClassifyRow(m, row) ==
    IF row = <<>> THEN m ELSE ClassifyRow(ClassifyCell(m, Head(row)), Tail(row))

\* the empty dict
EmptyDict == [k \in {} |-> 0]

\* a variant of the test that asks for a title only
RowQualifiesTitleOnly(m) == "title" \in DOMAIN m /\ m["title"] # <<>>

\* milestone.get("title") and milestone.get("payment_percentage")
RowQualifies(m) ==
    /\ "title" \in DOMAIN m /\ m["title"] # <<>>
    /\ "payment_percentage" \in DOMAIN m /\ m["payment_percentage"] # 0

\* the dict appended for a qualifying row: milestone.get("title", ""),
\* None, milestone.get("expected_date"), milestone.get("payment_percentage", 0)
MilestoneOf(m) ==
    PyDict([title |-> IF "title" \in DOMAIN m THEN PyStr(Chars(m["title"])) ELSE PyStr(<<>>),
            description |-> PyNull,
            expected_date |-> IF "expected_date" \in DOMAIN m
                              THEN PyStr(Chars(m["expected_date"])) ELSE PyNull,
            payment_percentage |-> IF "payment_percentage" \in DOMAIN m
                                   THEN PyNum(m["payment_percentage"]) ELSE PyNum(0)])

RECURSIVE ParseDataRows(_)
\* the loop over the data rows: rows without a truthy cell are skipped, the
\* rows that qualify each append one milestone
ParseDataRows(rows) ==
    IF rows = <<>> THEN <<>>
    ELSE LET row == Head(rows)
             m == ClassifyRow(EmptyDict, row)
         IN  (IF (\E i \in 1..Len(row) : CellTruthy(row[i])) /\ RowQualifies(m)
              THEN <<MilestoneOf(m)>> ELSE <<>>)
             \o ParseDataRows(Tail(rows))

\* the rows of wb.active
ActiveRows(content) == content.sheets[content.active].rows

\* a variant of the data row loop that starts at the first row of the sheet
HeuristicMilestonesAllRows(content) == ParseDataRows(ActiveRows(content))

\* the milestones the heuristic yields once a header row is found
HeuristicMilestones(content) ==
    ParseDataRows(SubSeq(ActiveRows(content), HeaderRow(ActiveRows(content)) + 1,
                         Len(ActiveRows(content))))

----------------------------------------------------------------------------
(* The LLM reply and its post-processing.  The content of a reply is a       *)
(* sequence of tokens: a code-fence marker, the language tag "json", a       *)
(* newline, a space, one JSON document (given by its value), or prose.       *)

Fence == [k |-> "fence"]
JsonTag == [k |-> "jsontag"]
Newline == [k |-> "nl"]
Space == [k |-> "sp"]
Prose == [k |-> "prose"]
JsonDoc(v) == [k |-> "value", v |-> v]

IsWs(tok) == tok.k \in {"nl", "sp"}

RECURSIVE DropLeadingWs(_)
DropLeadingWs(c) == IF c # <<>> /\ IsWs(Head(c)) THEN DropLeadingWs(Tail(c)) ELSE c

RECURSIVE DropTrailingWs(_)
DropTrailingWs(c) ==
    IF c # <<>> /\ IsWs(c[Len(c)]) THEN DropTrailingWs(SubSeq(c, 1, Len(c) - 1)) ELSE c

\* re.sub(r'^```json\s*', '', content)
StripLeadingFence(c) ==
    IF Len(c) >= 2 /\ c[1] = Fence /\ c[2] = JsonTag
    THEN DropLeadingWs(SubSeq(c, 3, Len(c)))
    ELSE c

\* re.sub(r'\s*```$', '', content): "$" matches at the end and before one
\* newline that ends the content
StripTrailingFence(c) ==
    IF c # <<>> /\ c[Len(c)] = Fence
    THEN DropTrailingWs(SubSeq(c, 1, Len(c) - 1))
    ELSE IF Len(c) >= 2 /\ c[Len(c)] = Newline /\ c[Len(c) - 1] = Fence
    THEN DropTrailingWs(SubSeq(c, 1, Len(c) - 2)) \o <<Newline>>
    ELSE c

\* json.loads(content) succeeds when the content is one JSON document with
\* white space around it
JsonLoadsOk(c) ==
    LET core == DropTrailingWs(DropLeadingWs(c))
    IN  Len(core) = 1 /\ core[1].k = "value"

JsonLoads(c) == DropTrailingWs(DropLeadingWs(c))[1].v

\* A reply of the chat completion call: an exception, or a message whose
\* content is None or a token sequence
ReplyError == [ok |-> FALSE]
ReplyContent(c) == [ok |-> TRUE, content |-> c]

\* the try block of the three parsers: the value parsed from the reply;
\* .ok is FALSE when anything in the block raised
ParseReply(reply) ==
    IF ~reply.ok \/ ~reply.content.some
    THEN [ok |-> FALSE]
    ELSE LET cleaned == StripTrailingFence(StripLeadingFence(reply.content.v))
         IN  IF JsonLoadsOk(cleaned) THEN [ok |-> TRUE, v |-> JsonLoads(cleaned)]
             ELSE [ok |-> FALSE]

\* the object _parse_po_with_gpt returns when the try block raised
PoFallback ==
    PyDict([po_number |-> PyNull, vendor_name |-> PyNull, date |-> PyNull,
            total_value |-> PyNull, currency |-> PyNull,
            milestones |-> PyList(<<>>), boq_items |-> PyList(<<>>),
            confidence |-> PyNum(0)])

\* the object _parse_invoice_with_gpt returns when the try block raised
InvoiceFallback ==
    PyDict([invoice_number |-> PyNull, vendor_name |-> PyNull,
            total_amount |-> PyNull, confidence |-> PyNum(0)])

\* the list _parse_milestones_with_gpt returns when the try block raised
MilestonesFallback == PyList(<<>>)

\* _parse_po_with_gpt, given the reply of the model
_parse_po_with_gpt(reply) == IF ParseReply(reply).ok THEN ParseReply(reply).v ELSE PoFallback

\* _parse_invoice_with_gpt, given the reply of the model
_parse_invoice_with_gpt(reply) ==
    IF ParseReply(reply).ok THEN ParseReply(reply).v ELSE InvoiceFallback

\* _parse_milestones_with_gpt, given the reply of the model
_parse_milestones_with_gpt(reply) ==
    IF ParseReply(reply).ok THEN ParseReply(reply).v ELSE MilestonesFallback

\* the number of characters of the text placed in the prompt
PromptBudget == 15000

\* a variant of the prompt that carries the whole text
PromptTextWhole(raw_text) == raw_text

\* raw_text[:15000], the document text of the prompt
PromptText(raw_text) == Slice(raw_text, PromptBudget)

\* the number of characters of the text attached to the result
RawTextBudget == 5000

----------------------------------------------------------------------------
(* Result envelopes *)

\* a variant of the failure envelope that carries a data object as well
FailureWithData(msg, arg) ==
    [success |-> FALSE, error |-> [msg |-> msg, arg |-> arg], data |-> [t |-> "dict", d |-> <<>>]]

Failure(msg, arg) == [success |-> FALSE, error |-> [msg |-> msg, arg |-> arg]]
Success(data) == [success |-> TRUE, data |-> data]

UnsupportedMsg == "Unsupported file type: "
UnsupportedMilestonesMsg == "Unsupported file type for milestones: "
UnreadableMsg == "Could not extract text from document"
UnknownTypeMsg == "Unknown document type: "

\* str(e) of the TypeError of parsed_data["raw_text"] = ... on a value that
\* is no dict
ItemAssignMsg(v) ==
    CASE v.t = "list" -> "list indices must be integers or slices, not str"
      [] v.t = "str" -> "'str' object does not support item assignment"
      [] v.t = "num" -> "'int' object does not support item assignment"
      [] v.t = "null" -> "'NoneType' object does not support item assignment"

\* str(e) of the TypeError of raw_text[:15000] on None
NoneSubscriptMsg == "'NoneType' object is not subscriptable"

\* a variant of the except clause that lets the exception leave the entry point
EntryExceptReraise(msg) == [raised |-> TRUE, msg |-> msg]

\* except Exception as e: return {"success": False, "error": str(e)}
EntryExcept(msg) == Failure(msg, <<>>)

\* parsed_data["raw_text"] = raw_text[:5000]; return {"success": True, ...}
\* and the except clause around it
AttachRawText(parsed_data, raw_text) ==
    IF parsed_data.t = "dict"
    THEN Success(PyDict(DictSet(parsed_data.d, "raw_text", PyStr(Slice(raw_text, RawTextBudget)))))
    ELSE EntryExcept(ItemAssignMsg(parsed_data))

----------------------------------------------------------------------------
(* The documents and service answers the model draws from *)

Text(c, n) == <<Run(c, n)>>

Garbage == [fmt |-> "other"]
Pdf(pages) == [fmt |-> "pdf", pages |-> pages]
Docx(paragraphs) == [fmt |-> "docx", paragraphs |-> paragraphs]
Xlsx(sheets) == [fmt |-> "xlsx", sheets |-> sheets, active |-> 1]

\* the direct text must be longer than this, trimmed, to be accepted without OCR
OcrThreshold == 500

\* PDF documents by the text of their pages: around the OCR threshold, bare
\* and padded with white space, and around the two truncation budgets
PdfDocs ==
    {Pdf(<<>>),
     Pdf(<<Text(" ", 3)>>),
     Pdf(<<Text("a", OcrThreshold - 1)>>),
     Pdf(<<Text("a", OcrThreshold)>>),
     Pdf(<<Text("a", OcrThreshold + 1)>>),
     Pdf(<<Text(" ", 1) \o Text("a", OcrThreshold) \o Text("\n", 1)>>),
     Pdf(<<Text("a", 250), <<>>, Text("a", 249)>>),
     Pdf(<<Text("a", RawTextBudget - 1) \o Text("b", 2)>>),
     Pdf(<<Text("a", RawTextBudget - 1) \o Text("b", PromptBudget - RawTextBudget) \o Text("c", 2)>>)}

DocxDocs ==
    {Docx(<<>>),
     Docx(<<Text(" ", 2)>>),
     Docx(<<Text("a", 10), <<>>, Text("b", 5)>>)}

\* a schedule with a header row and two data rows
ScheduleSheet ==
    [name |-> <<"S">>,
     rows |-> <<
        <<CStr(<<"M", "i", "l", "e", "s", "t", "o", "n", "e", " ", "D", "e", "s", "c", "r", "i", "p", "t", "i", "o", "n">>), CStr(<<"P", "a", "y", "m", "e", "n", "t", " ", "%">>), CNone>>,
        <<CStr(<<"M", "o", "b", "i", "l", "i", "z", "a", "t", "i", "o", "n">>), CInt(10), CDate(2024, 1, 15)>>,
        <<CStr(<<"F", "i", "n", "a", "l", " ", "D", "e", "l", "i", "v", "e", "r", "y">>), CInt(90), CDate(2024, 12, 1)>> >>]

\* a sheet without a header row
PlainSheet ==
    [name |-> <<"S">>,
     rows |-> << <<CStr(<<"I", "t", "e", "m">>), CInt(0), CBool(FALSE)>>,
                 <<CStr(<<"W", "o", "r", "k", "s">>), CInt(5), CNone>> >>]

EmptySheet == [name |-> <<"S">>, rows |-> <<>>]

\* a row that is no header row and would qualify as a data row
ItemRow(i) == <<CStr(<<"I", "t", "e", "m">>), CInt(i)>>

\* a header row in upper case
UpperHeaderRow == <<CStr(<<"P", "A", "Y", "M", "E", "N", "T">>), CNone>>

\* a header row below a row that is none, with data rows of every kind under
\* it: qualifying, empty, too short a title, no percentage, and a second row
\* that reads like a header
UpperHeaderSheet ==
    [name |-> <<"S">>,
     rows |-> <<
        ItemRow(5),
        UpperHeaderRow,
        <<CStr(<<"M", "o", "b", "i", "l", "i", "z", "a", "t", "i", "o", "n">>), CInt(10)>>,
        <<CNone, CNone>>,
        <<CStr(<<"a", "b", "c">>), CInt(20)>>,
        <<CStr(<<"N", "o", "t", "e">>), CNone>>,
        <<CStr(<<"P", "a", "y", "m", "e", "n", "t", " ", "o", "n", " ", "d", "e", "l", "i", "v", "e", "r", "y">>), CInt(90)>> >>]

\* a header row and no data row that qualifies
NoDataSheet ==
    [name |-> <<"S">>,
     rows |-> << UpperHeaderRow, <<CStr(<<"a", "b", "c">>), CInt(20)>> >>]

\* the header row is the last row scanned
TenthRowSheet ==
    [name |-> <<"S">>,
     rows |-> [i \in 1..HeaderScanRows + 1 |->
                 IF i < HeaderScanRows THEN ItemRow(i)
                 ELSE IF i = HeaderScanRows THEN UpperHeaderRow
                 ELSE ItemRow(100)]]

\* the header row is the first row that is not scanned
LateHeaderSheet ==
    [name |-> <<"S">>,
     rows |-> [i \in 1..HeaderScanRows + 2 |->
                 IF i <= HeaderScanRows THEN ItemRow(i)
                 ELSE IF i = HeaderScanRows + 1 THEN UpperHeaderRow
                 ELSE ItemRow(100)]]

\* data rows with several cells of one kind, and with text cells padded
\* with white space
PaddedSheet ==
    [name |-> <<"S">>,
     rows |-> <<
        UpperHeaderRow,
        <<CStr(<<"A", "l", "p", "h", "a">>), CStr(<<"B", "r", "a", "v", "o">>), CInt(10), CInt(20), CDate(2024, 1, 15), CDate(2024, 12, 1)>>,
        <<CStr(<<" ", " ", "a", "b", " ", " ">>), CInt(30)>>,
        <<CStr(<<" ", " ", " ", " ">>), CStr(<<"R", "e", "a", "l", " ", "t", "i", "t", "l", "e">>), CInt(40)>> >>]

XlsxDocs ==
    {Xlsx(<<ScheduleSheet>>), Xlsx(<<PlainSheet>>), Xlsx(<<EmptySheet>>),
     Xlsx(<<UpperHeaderSheet>>), Xlsx(<<NoDataSheet>>), Xlsx(<<TenthRowSheet>>),
     Xlsx(<<LateHeaderSheet>>), Xlsx(<<PaddedSheet>>)}

\* the bytes a fetch may return for a locator of extension ext, or an upload
\* may carry: a document of that format, or bytes the library cannot open
DocumentsFor(ext) ==
    {Garbage} \cup (IF ext \in {ExtXlsx, ExtXls} THEN XlsxDocs
                    ELSE IF ext \in {ExtDocx, ExtDoc} THEN DocxDocs
                    ELSE IF ext = ExtPdf THEN PdfDocs
                    ELSE {})

\* blocks of an OCR response
Block(type, text) == [BlockType |-> type, Text |-> text]

\* the blocks of the first response of a finished job, or of a detect call
FirstBlocks ==
    {<<>>,
     <<Block("LINE", Text("x", 20)), Block("LINE", Text("z", 3))>>,
     <<Block("PAGE", <<>>), Block("LINE", Text("x", 20)), Block("WORD", Text("x", 20))>>}

\* the blocks of a continuation page
PageBlocks == {<<Block("WORD", Text("y", 3))>>, <<Block("LINE", Text("y", 3))>>}

\* the most result pages the service returns for one job
MaxPages == 3

\* JSON documents the model may reply with
PoObject == PyDict([po_number |-> PyStr(Text("7", 1)), confidence |-> PyNum(1)])
RawTextObject == PyDict([po_number |-> PyNull, raw_text |-> PyStr(Text("z", 1))])
MilestoneArray ==
    PyList(<<PyDict([title |-> PyStr(Text("t", 4)), payment_percentage |-> PyNum(100)])>>)

JsonValues == {PoObject, RawTextObject, MilestoneArray, PyNum(7)}

Replies ==
    {ReplyError, ReplyContent(None), ReplyContent(Some(<<Prose>>))}
    \cup {ReplyContent(Some(<<JsonDoc(v)>>)) : v \in JsonValues}
    \cup {ReplyContent(Some(<<Fence, JsonTag, Newline, JsonDoc(PoObject), Newline, Fence>>)),
          ReplyContent(Some(<<Fence, Newline, JsonDoc(PoObject), Newline, Fence>>))}

DocumentTypes == {"purchase_order", "invoice", "milestone", "other"}

----------------------------------------------------------------------------
(* The state of one extraction call *)

VARIABLES
    pc,             \* where the call is: idle, download, textract_start,
                    \* textract_sleep, textract_poll, textract_page, detect,
                    \* openai, done
    method,         \* the entry point called
    file_url,       \* its locator (URL-based entry points)
    filename,       \* its file name (extract_from_bytes)
    document_type,  \* its document type (extract_from_bytes)
    content,        \* the bytes fetched or uploaded, None before
    raw_text,       \* the text the extraction stage returned, None before
    attempt,        \* poll loop: the loop variable
    slept,          \* poll loop: the time slept so far
    all_blocks,     \* poll loop: the blocks collected
    pages,          \* poll loop: the result pages fetched after the first
    next_token,     \* poll loop: the continuation cursor held, 0 for None
    status,         \* the status of the OCR job as the client observed it last
    served,         \* the result pages the OCR service returned, in order
    asked,          \* the object the storage fetch and the OCR service were
                    \* asked to read
    ocr,            \* how the OCR job client ended: none, text, failed,
                    \* timed_out, error
    reply,          \* the reply of the LLM, None before
    prompt,         \* the document text placed in the prompt, None before
    calls,          \* the number of calls made to each external service
    result          \* the envelope returned

vars == <<pc, method, file_url, filename, document_type, content, raw_text,
          attempt, slept, all_blocks, pages, next_token, status, served, asked,
          ocr, reply, prompt, calls, result>>

NoResult == [pending |-> TRUE]
NoReply == [received |-> FALSE]
NoRequest == [via |-> "none"]

Init ==
    /\ pc = "idle"
    /\ method = "none"
    /\ file_url = <<>>
    /\ filename = <<>>
    /\ document_type = "none"
    /\ content = None
    /\ raw_text = None
    /\ attempt = 0
    /\ slept = 0
    /\ all_blocks = <<>>
    /\ pages = 0
    /\ next_token = 0
    /\ status = "NONE"
    /\ served = <<>>
    /\ asked = [fetch |-> NoRequest, ocr |-> NoRequest]
    /\ ocr = "none"
    /\ reply = NoReply
    /\ prompt = None
    /\ calls = [fetch |-> 0, submit |-> 0, detect |-> 0, llm |-> 0]
    /\ result = NoResult

----------------------------------------------------------------------------
(* The entry points up to their first external call *)

SpreadsheetExts == {ExtXlsx, ExtXls}
WordExts == {ExtDocx, ExtDoc}
ImageExts == {ExtPng, ExtJpg, ExtJpeg}

\* a variant of the dispatch without the final else branch: an extension that
\* is no spreadsheet, word or image extension is read as a PDF
UrlDispatchNoReject(ext) ==
    IF ext \in ImageExts
    THEN [pc |-> "detect", result |-> NoResult]
    ELSE [pc |-> "download", result |-> NoResult]

\* a variant of the dispatch that reads an image as the other formats are
\* read: the file is fetched and its text extracted as for a PDF
UrlDispatchImagesFetched(ext) ==
    IF ext \in SpreadsheetExts \cup WordExts \cup {ExtPdf} \cup ImageExts
    THEN [pc |-> "download", result |-> NoResult]
    ELSE [pc |-> "done", result |-> Failure(UnsupportedMsg, ext)]

\* what extract_purchase_order and extract_invoice do with their extension:
\* the stage that extracts the text, or the envelope returned at once
UrlDispatch(ext) ==
    IF ext \in SpreadsheetExts \cup WordExts \cup {ExtPdf}
    THEN [pc |-> "download", result |-> NoResult]
    ELSE IF ext \in ImageExts
    THEN [pc |-> "detect", result |-> NoResult]
    ELSE [pc |-> "done", result |-> Failure(UnsupportedMsg, ext)]

\* what extract_milestones does with its extension
MilestonesDispatch(ext) ==
    IF ext \in SpreadsheetExts \cup {ExtPdf}
    THEN [pc |-> "download", result |-> NoResult]
    ELSE [pc |-> "done", result |-> Failure(UnsupportedMilestonesMsg, ext)]

\* a variant of the check that fetches the document once more when no text
\* was extracted
CheckedTextRefetch(raw) ==
    IF ~Truthy(raw) /\ calls.fetch < 2
    THEN [pc |-> "download", result |-> NoResult]
    ELSE IF ~Truthy(raw)
    THEN [pc |-> "done", result |-> Failure(UnreadableMsg, <<>>)]
    ELSE [pc |-> "openai", result |-> NoResult]

\* the check of the extracted text in extract_purchase_order, extract_invoice
\* and extract_from_bytes: "if not raw_text: return ..."
CheckedText(raw) ==
    IF ~Truthy(raw)
    THEN [pc |-> "done", result |-> Failure(UnreadableMsg, <<>>)]
    ELSE [pc |-> "openai", result |-> NoResult]

\* extract_milestones on a PDF hands the text to _parse_milestones_with_gpt
\* unchecked: None raises in raw_text[:15000], before the LLM is called, and
\* the except clause of the entry point returns the failure
UncheckedText(raw) ==
    IF ~raw.some
    THEN [pc |-> "done", result |-> EntryExcept(NoneSubscriptMsg)]
    ELSE [pc |-> "openai", result |-> NoResult]

\* what the entry point m does once its text extraction returned raw
AfterExtract(m, raw) ==
    IF m = "extract_milestones" THEN UncheckedText(raw) ELSE CheckedText(raw)

\* the dispatch on document_type in extract_from_bytes, after the text check
BytesDispatch(raw, dtype) ==
    IF ~Truthy(raw) THEN CheckedText(raw)
    ELSE IF dtype \in {"purchase_order", "invoice", "milestone"} THEN CheckedText(raw)
    ELSE [pc |-> "done", result |-> Failure(UnknownTypeMsg, dtype)]

\* a variant of the text extraction of uploads that refuses the text of a PDF
\* at or under the OCR threshold
BytesTextThreshold(ext, c) ==
    IF ext \in SpreadsheetExts THEN _extract_excel_from_bytes(c)
    ELSE IF ext \in WordExts THEN _extract_word_from_bytes(c)
    ELSE IF /\ _extract_pdf_from_bytes(c).some
            /\ TextLen(StripText(_extract_pdf_from_bytes(c).v)) > OcrThreshold
    THEN _extract_pdf_from_bytes(c)
    ELSE None

\* the text extraction of extract_from_bytes
BytesText(ext, c) ==
    IF ext \in SpreadsheetExts THEN _extract_excel_from_bytes(c)
    ELSE IF ext \in WordExts THEN _extract_word_from_bytes(c)
    ELSE _extract_pdf_from_bytes(c)

JobUnchanged == UNCHANGED <<attempt, slept, all_blocks, pages, next_token, status, served, asked, ocr>>

extract_purchase_order(url) ==
    /\ pc = "idle"
    /\ method' = "extract_purchase_order"
    /\ file_url' = url
    /\ pc' = UrlDispatch(_get_extension(url)).pc
    /\ result' = UrlDispatch(_get_extension(url)).result
    /\ JobUnchanged
    /\ UNCHANGED <<filename, document_type, content, raw_text, reply, prompt, calls>>

extract_invoice(url) ==
    /\ pc = "idle"
    /\ method' = "extract_invoice"
    /\ file_url' = url
    /\ pc' = UrlDispatch(_get_extension(url)).pc
    /\ result' = UrlDispatch(_get_extension(url)).result
    /\ JobUnchanged
    /\ UNCHANGED <<filename, document_type, content, raw_text, reply, prompt, calls>>

extract_milestones(url) ==
    /\ pc = "idle"
    /\ method' = "extract_milestones"
    /\ file_url' = url
    /\ pc' = MilestonesDispatch(_get_extension(url)).pc
    /\ result' = MilestonesDispatch(_get_extension(url)).result
    /\ JobUnchanged
    /\ UNCHANGED <<filename, document_type, content, raw_text, reply, prompt, calls>>

extract_from_bytes(c, name, dtype) ==
    /\ pc = "idle"
    /\ method' = "extract_from_bytes"
    /\ filename' = name
    /\ document_type' = dtype
    /\ content' = [some |-> TRUE, v |-> c]
    /\ LET ext == FilenameExtension(name)
       IN  IF ext \in SpreadsheetExts \cup WordExts \cup {ExtPdf}
           THEN /\ raw_text' = BytesText(ext, c)
                /\ pc' = BytesDispatch(BytesText(ext, c), dtype).pc
                /\ result' = BytesDispatch(BytesText(ext, c), dtype).result
           ELSE /\ raw_text' = raw_text
                /\ pc' = "done"
                /\ result' = Failure(UnsupportedMsg, ext)
    /\ JobUnchanged
    /\ UNCHANGED <<file_url, reply, prompt, calls>>

----------------------------------------------------------------------------
(* The text extraction stage *)

\* the fetch of _download_file: the exception it raises (None), or the bytes
Fetched(url) == {None} \cup {[some |-> TRUE, v |-> d] : d \in DocumentsFor(_get_extension(url))}

\* _extract_excel(file_url), given what the fetch gave: None when it raised
_extract_excel(fetched) == IF fetched.some THEN _extract_excel_from_bytes(fetched.v) ELSE None

\* _extract_word(file_url), given what the fetch gave
_extract_word(fetched) == IF fetched.some THEN _extract_word_from_bytes(fetched.v) ELSE None

\* a variant of the test without the length threshold: any direct text is used
AcceptDirectAnyText(text) == Truthy(text)

\* _extract_pdf: "if text and len(text.strip()) > 500", the direct text is used
AcceptDirect(text) == Truthy(text) /\ TextLen(StripText(text.v)) > OcrThreshold

\* a variant in which an OCR job that failed or raised counts as a document
\* without text, "", instead of None
WithTextFailedAsEmpty(m, raw, how) ==
    LET got == IF how \in {"failed", "error"} THEN Some(<<>>) ELSE raw
    IN  [pc |-> AfterExtract(m, got).pc, result |-> AfterExtract(m, got).result,
         raw_text |-> got, ocr |-> how]

\* the entry point m goes on with the text raw of its extraction stage
WithText(m, raw, how) ==
    [pc |-> AfterExtract(m, raw).pc, result |-> AfterExtract(m, raw).result,
     raw_text |-> raw, ocr |-> how]

\* _extract_pdf(file_url) once the fetch returned: the direct text, or the
\* OCR job client, which fails before the submit when the url has no host
ExtractPdf(m, url, fetched) ==
    IF ~fetched.some THEN WithText(m, None, "none")
    ELSE IF AcceptDirect(_extract_pdf_from_bytes(fetched.v))
    THEN WithText(m, _extract_pdf_from_bytes(fetched.v), "none")
    ELSE IF UrlHostname(url) = <<>> THEN WithText(m, None, "error")
    ELSE [pc |-> "textract_start", result |-> NoResult, raw_text |-> None, ocr |-> "none"]

\* {"success": True, "data": {"milestones": milestones}} of extract_milestones
MilestonesResult(milestones) == Success(PyDict([milestones |-> milestones]))

\* a variant of _extract_milestones_from_excel without the header scan: the
\* sheet text of every workbook goes to the LLM
MilestonesFromExcelLlmOnly(fetched) ==
    IF ~fetched.some \/ fetched.v.fmt # "xlsx"
    THEN [pc |-> "done", result |-> MilestonesResult(PyList(<<>>)),
          raw_text |-> None, ocr |-> "none"]
    ELSE [pc |-> "openai", result |-> NoResult,
          raw_text |-> _extract_excel_from_bytes(fetched.v), ocr |-> "none"]

\* _extract_milestones_from_excel(file_url) once the fetch returned: [] when
\* the fetch or the load raised, the LLM on the sheet text when no header row
\* is found, the heuristic milestones otherwise
MilestonesFromExcel(fetched) ==
    IF ~fetched.some \/ fetched.v.fmt # "xlsx"
    THEN [pc |-> "done", result |-> MilestonesResult(PyList(<<>>)),
          raw_text |-> None, ocr |-> "none"]
    ELSE IF HeaderRow(ActiveRows(fetched.v)) = 0
    THEN [pc |-> "openai", result |-> NoResult,
          raw_text |-> _extract_excel_from_bytes(fetched.v), ocr |-> "none"]
    ELSE [pc |-> "done", result |-> MilestonesResult(PyList(HeuristicMilestones(fetched.v))),
          raw_text |-> None, ocr |-> "none"]

\* what the call does once _download_file returned or raised
AfterDownload(m, url, fetched) ==
    LET ext == _get_extension(url)
    IN  IF m = "extract_milestones" /\ ext \in SpreadsheetExts THEN MilestonesFromExcel(fetched)
        ELSE IF ext \in SpreadsheetExts THEN WithText(m, _extract_excel(fetched), "none")
        ELSE IF ext \in WordExts THEN WithText(m, _extract_word(fetched), "none")
        ELSE ExtractPdf(m, url, fetched)

DownloadFile ==
    /\ pc = "download"
    /\ calls' = [calls EXCEPT !.fetch = @ + 1]
    /\ asked' = [asked EXCEPT !.fetch = DownloadRequest(file_url)]
    /\ \E fetched \in Fetched(file_url) :
          /\ content' = fetched
          /\ pc' = AfterDownload(method, file_url, fetched).pc
          /\ result' = AfterDownload(method, file_url, fetched).result
          /\ raw_text' = AfterDownload(method, file_url, fetched).raw_text
          /\ ocr' = AfterDownload(method, file_url, fetched).ocr
    /\ UNCHANGED <<method, file_url, filename, document_type, attempt, slept,
                   all_blocks, pages, next_token, status, served, reply, prompt>>

----------------------------------------------------------------------------
(* The OCR job client, _extract_pdf_with_textract *)

\* the number of polls of the loop
max_attempts == 60

\* the seconds slept before each poll
PollInterval == 2

\* a variant that joins the texts of all blocks that are not PAGE blocks
LineTextAllBlocks(blocks) ==
    LET lines == SelectSeq(blocks, LAMBDA b : b.BlockType # "PAGE")
    IN  JoinText(Chars(<<"\n">>), [i \in 1..Len(lines) |-> lines[i].Text])

\* the texts of the LINE blocks, joined by newlines
LineText(blocks) ==
    LET lines == SelectSeq(blocks, LAMBDA b : b.BlockType = "LINE")
    IN  JoinText(Chars(<<"\n">>), [i \in 1..Len(lines) |-> lines[i].Text])

\* a variant of the return of the client that submits the document once more
\* after a FAILED job
TextractReturnResubmit(raw, how) ==
    /\ pc' = IF how = "failed" /\ calls.submit < 2 THEN "textract_start"
              ELSE WithText(method, raw, how).pc
    /\ result' = IF how = "failed" /\ calls.submit < 2 THEN NoResult
                  ELSE WithText(method, raw, how).result
    /\ raw_text' = raw
    /\ ocr' = IF how = "failed" /\ calls.submit < 2 THEN "none" ELSE how
    /\ attempt' = 0
    /\ slept' = 0
    /\ all_blocks' = <<>>
    /\ pages' = 0
    /\ next_token' = 0

\* the client returns raw to _extract_pdf, which returns it to the entry
\* point; the locals of the client are gone
TextractReturn(raw, how) ==
    /\ pc' = WithText(method, raw, how).pc
    /\ result' = WithText(method, raw, how).result
    /\ raw_text' = raw
    /\ ocr' = how
    /\ attempt' = 0
    /\ slept' = 0
    /\ all_blocks' = <<>>
    /\ pages' = 0
    /\ next_token' = 0

\* one result page as the service returned it: its number, its blocks, and
\* whether its response carried a NextToken
Page(n, blocks, more) == [page |-> n, blocks |-> blocks, more |-> more]

\* start_document_text_detection: a job id, or an exception
TextractStart ==
    /\ pc = "textract_start"
    /\ calls' = [calls EXCEPT !.submit = @ + 1]
    /\ asked' = [asked EXCEPT !.ocr = TextractLocation(file_url)]
    /\ \/ /\ pc' = "textract_sleep"
          /\ status' = "SUBMITTED"
          /\ UNCHANGED <<result, raw_text, ocr, attempt, slept, all_blocks, pages, next_token>>
       \/ /\ TextractReturn(None, "error")
          /\ UNCHANGED status
    /\ UNCHANGED <<method, file_url, filename, document_type, content, served, reply, prompt>>

\* a variant of the loop that polls without waiting
TextractSleepSkipped ==
    /\ pc = "textract_sleep"
    /\ pc' = "textract_poll"
    /\ UNCHANGED <<asked, method, file_url, filename, document_type, content, raw_text, attempt,
                   slept, all_blocks, pages, next_token, status, served, ocr, reply,
                   prompt, calls, result>>

\* await asyncio.sleep(2), the first statement of each iteration of the loop
TextractSleep ==
    /\ pc = "textract_sleep"
    /\ slept' = slept + PollInterval
    /\ pc' = "textract_poll"
    /\ UNCHANGED <<asked, method, file_url, filename, document_type, content, raw_text, attempt,
                   all_blocks, pages, next_token, status, served, ocr, reply, prompt,
                   calls, result>>

\* the rest of one iteration of the poll loop: get_document_text_detection
\* and what follows up to the next sleep or call of the service.  The status
\* RUNNING stands for every status that is neither SUCCEEDED nor FAILED.
TextractPoll ==
    /\ pc = "textract_poll"
    /\ attempt < max_attempts
    /\ \/ \* the call raises
          /\ TextractReturn(None, "error")
          /\ UNCHANGED <<status, served>>
       \/ \* FAILED
          /\ TextractReturn(None, "failed")
          /\ status' = "FAILED"
          /\ UNCHANGED served
       \/ \* SUCCEEDED, without a NextToken
          \E blocks \in FirstBlocks :
             /\ TextractReturn(Some(LineText(blocks)), "text")
             /\ status' = "SUCCEEDED"
             /\ served' = Append(served, Page(1, blocks, FALSE))
       \/ \* SUCCEEDED, with a NextToken
          /\ pages + 1 < MaxPages
          /\ \E blocks \in FirstBlocks :
                /\ all_blocks' = blocks
                /\ served' = Append(served, Page(1, blocks, TRUE))
          /\ next_token' = 2
          /\ status' = "SUCCEEDED"
          /\ pc' = "textract_page"
          /\ UNCHANGED <<result, raw_text, ocr, attempt, slept, pages>>
       \/ \* any other status, and polls are left
          /\ attempt + 1 < max_attempts
          /\ attempt' = attempt + 1
          /\ status' = "RUNNING"
          /\ pc' = "textract_sleep"
          /\ UNCHANGED <<result, raw_text, ocr, slept, all_blocks, pages, next_token, served>>
       \/ \* any other status at the last poll: the loop ends, "Job timed out"
          /\ attempt + 1 = max_attempts
          /\ TextractReturn(None, "timed_out")
          /\ status' = "TIMED_OUT"
          /\ UNCHANGED served
    /\ UNCHANGED <<asked, method, file_url, filename, document_type, content, reply, prompt, calls>>

\* one iteration of the pagination loop: the page the cursor names is asked
\* for; the cursor of its response names the page after it
TextractPage ==
    /\ pc = "textract_page"
    /\ \/ \* the call raises
          /\ TextractReturn(None, "error")
          /\ UNCHANGED served
       \/ \* a page without a NextToken
          \E blocks \in PageBlocks :
             /\ TextractReturn(Some(LineText(all_blocks \o blocks)), "text")
             /\ served' = Append(served, Page(next_token, blocks, FALSE))
       \/ \* a page with a NextToken
          /\ pages + 2 < MaxPages
          /\ \E blocks \in PageBlocks :
                /\ all_blocks' = all_blocks \o blocks
                /\ served' = Append(served, Page(next_token, blocks, TRUE))
          /\ next_token' = next_token + 1
          /\ pages' = pages + 1
          /\ UNCHANGED <<pc, result, raw_text, ocr, attempt, slept>>
    /\ UNCHANGED <<asked, method, file_url, filename, document_type, content, status, reply, prompt, calls>>

\* _extract_image: detect_document_text, then the LINE texts
DetectImage ==
    /\ pc = "detect"
    /\ calls' = [calls EXCEPT !.detect = @ + 1]
    /\ asked' = [asked EXCEPT !.ocr = ImageLocation(file_url)]
    /\ \E raw \in {None} \cup {Some(LineText(blocks)) : blocks \in FirstBlocks} :
          /\ pc' = WithText(method, raw, "none").pc
          /\ result' = WithText(method, raw, "none").result
          /\ raw_text' = raw
    /\ UNCHANGED <<method, file_url, filename, document_type, content, attempt, slept,
                   all_blocks, pages, next_token, status, served, ocr, reply, prompt>>

----------------------------------------------------------------------------
(* The LLM call and the envelope *)

\* what the entry point returns once the model replied r to the prompt on raw
Finish(m, dtype, raw, r) ==
    IF m = "extract_purchase_order" THEN AttachRawText(_parse_po_with_gpt(r), raw)
    ELSE IF m = "extract_invoice" THEN AttachRawText(_parse_invoice_with_gpt(r), raw)
    ELSE IF m = "extract_milestones" THEN MilestonesResult(_parse_milestones_with_gpt(r))
    ELSE IF dtype = "purchase_order" THEN AttachRawText(_parse_po_with_gpt(r), raw)
    ELSE IF dtype = "invoice" THEN AttachRawText(_parse_invoice_with_gpt(r), raw)
    ELSE AttachRawText(PyDict([milestones |-> _parse_milestones_with_gpt(r)]), raw)

\* openai.chat.completions.create, the parsing of its reply and the return
ChatCompletion ==
    /\ pc = "openai"
    /\ calls' = [calls EXCEPT !.llm = @ + 1]
    /\ prompt' = Some(PromptText(raw_text.v))
    /\ \E r \in Replies :
          /\ reply' = r
          /\ result' = Finish(method, document_type, raw_text.v, r)
    /\ pc' = "done"
    /\ UNCHANGED <<asked, method, file_url, filename, document_type, content, raw_text,
                   attempt, slept, all_blocks, pages, next_token, status, served, ocr>>

Next ==
    \/ \E url \in Locators : extract_purchase_order(url)
    \/ \E url \in Locators : extract_invoice(url)
    \/ \E url \in Locators : extract_milestones(url)
    \/ \E name \in Filenames, dtype \in DocumentTypes :
          \E c \in DocumentsFor(FilenameExtension(name)) : extract_from_bytes(c, name, dtype)
    \/ DownloadFile
    \/ TextractStart
    \/ TextractSleep
    \/ TextractPoll
    \/ TextractPage
    \/ DetectImage
    \/ ChatCompletion

Spec == Init /\ [][Next]_vars

----------------------------------------------------------------------------
(* Properties of the entry points *)

UrlMethods == {"extract_purchase_order", "extract_invoice", "extract_milestones"}

\* s.endswith(e)
EndsWith(s, e) == Len(s) >= Len(e) /\ SubSeq(s, Len(s) - Len(e) + 1, Len(s)) = e

\* the extensions each entry point supports
SupportedExts(m) ==
    CASE m \in {"extract_purchase_order", "extract_invoice"} ->
            {ExtXlsx, ExtXls, ExtDocx, ExtDoc, ExtPdf, ExtPng, ExtJpg, ExtJpeg}
      [] m = "extract_milestones" -> {ExtXlsx, ExtXls, ExtPdf}
      [] m = "extract_from_bytes" -> {ExtXlsx, ExtXls, ExtDocx, ExtDoc, ExtPdf}
      [] OTHER -> {}

\* the locator or file name of the call
CallName == IF method = "extract_from_bytes" THEN filename ELSE file_url

Returned == pc = "done"

NoExternalCall == calls.fetch = 0 /\ calls.submit = 0 /\ calls.detect = 0 /\ calls.llm = 0

\* C1: every call that has returned returned an envelope with a boolean
\* success field, whatever the storage, the parsers, the OCR service and the
\* LLM answered; no exception left the entry point
C1_EnvelopeReturned ==
    Returned =>
        /\ "raised" \notin DOMAIN result
        /\ "success" \in DOMAIN result
        /\ result.success \in BOOLEAN

\* C1 witness: an exception raised inside extract_milestones (None handed to
\* the milestone parser after the OCR client failed) ended in an envelope
C1_Witness ==
    /\ Returned
    /\ method = "extract_milestones"
    /\ ocr = "error"
    /\ result = Failure(NoneSubscriptMsg, <<>>)

\* C2: a call whose locator or file name ends in no extension supported for
\* its entry point has returned success=false without any external call; for
\* extract_purchase_order on a ".txt" locator the error is
\* "Unsupported file type: .txt"
C2_UnsupportedRejected ==
    (pc # "idle" /\ ~\E e \in SupportedExts(method) : EndsWith(CallName, e)) =>
        /\ Returned
        /\ result.success = FALSE
        /\ NoExternalCall
        /\ (method = "extract_purchase_order" /\ EndsWith(file_url, ExtTxt)
              => result.error = [msg |-> "Unsupported file type: ", arg |-> ExtTxt])

\* C2 witness: extract_purchase_order on a ".txt" locator has returned
C2_Witness ==
    /\ Returned
    /\ method = "extract_purchase_order"
    /\ EndsWith(file_url, ExtTxt)
    /\ result.success = FALSE

\* the text extraction stage of the call has returned
TextStageRan ==
    /\ pc \in {"openai", "done"}
    /\ CASE method \in {"extract_purchase_order", "extract_invoice"} ->
               calls.fetch + calls.detect > 0
         [] method = "extract_milestones" -> calls.fetch > 0 /\ EndsWith(file_url, ExtPdf)
         [] method = "extract_from_bytes" ->
               \E e \in SupportedExts(method) : EndsWith(filename, e)
         [] OTHER -> FALSE

\* C3: whenever the text extraction stage yielded None or an empty text, the
\* call has returned success=false with "Could not extract text from
\* document" and the LLM was not called
C3_EmptyTextUnreadable ==
    (TextStageRan /\ ~Truthy(raw_text)) =>
        /\ Returned
        /\ result = Failure("Could not extract text from document", <<>>)
        /\ calls.llm = 0

WhitespaceOnly(raw) == raw.some /\ TextLen(raw.v) > 0 /\ StripText(raw.v) = <<>>

\* C4: an extracted text that is not empty and holds only white space is an
\* extraction failure: success=false is returned and the LLM is not called
C4_WhitespaceTextUnreadable ==
    (TextStageRan /\ WhitespaceOnly(raw_text)) =>
        /\ Returned
        /\ result.success = FALSE
        /\ calls.llm = 0

\* C5: when the storage fetch failed, the URL-based entry point returned
\* success=false
C5_FetchFailureFails ==
    (Returned /\ method \in UrlMethods /\ calls.fetch > 0 /\ ~content.some) =>
        result.success = FALSE

\* C6: once a non-empty text was extracted and the LLM was called,
\* extract_purchase_order, extract_invoice and extract_milestones return
\* success=true with a structured object, whatever the LLM answered
C6_LlmOutcomeNeverFails ==
    (Returned /\ method \in UrlMethods /\ calls.llm > 0 /\ Truthy(raw_text)) =>
        /\ result.success = TRUE
        /\ result.data.t = "dict"

PoScalarFields ==
    {"po_number", "vendor_name", "date", "total_value", "currency", "scope",
     "payment_terms", "incoterms", "retention_percentage"}

\* C7: for a purchase-order request whose model reply is not JSON, the object
\* returned holds every scalar header field with value null, empty milestones
\* and boq_items lists and confidence 0.0
C7_PoFallbackNullFilled ==
    (Returned /\ method = "extract_purchase_order" /\ reply = ReplyContent(Some(<<Prose>>))) =>
        /\ result.success = TRUE
        /\ \A k \in PoScalarFields :
              k \in DOMAIN result.data.d /\ result.data.d[k] = PyNull
        /\ result.data.d["milestones"] = PyList(<<>>)
        /\ result.data.d["boq_items"] = PyList(<<>>)
        /\ result.data.d["confidence"] = PyNum(0)

\* a URL-based call on a ".pdf" locator whose bytes were fetched
PdfFetched == method \in UrlMethods /\ EndsWith(file_url, ExtPdf) /\ content.some

\* the text pdfplumber reads from the fetched bytes
DirectText == _extract_pdf_from_bytes(content.v)

\* C8: for a PDF whose direct text has trimmed length >= 500, no OCR job is
\* submitted and the direct text is the text extracted
C8_LongDirectTextSkipsOcr ==
    (PdfFetched /\ DirectText.some /\ TextLen(StripText(DirectText.v)) >= 500) =>
        /\ pc # "textract_start"
        /\ calls.submit = 0
        /\ (pc \in {"openai", "done"} => raw_text = DirectText)

\* C9: for a fetched PDF whose direct text has trimmed length < 500, or that
\* cannot be parsed at all, an OCR job is submitted: the submit is the next
\* step of the call, or has been made
C9_ShortDirectTextSubmitsOcr ==
    (PdfFetched /\ (~DirectText.some \/ TextLen(StripText(DirectText.v)) < 500)) =>
        \/ pc = "textract_start"
        \/ calls.submit = 1

\* C9 witness: the fetched bytes could not be parsed and the job was submitted
C9_Witness ==
    /\ PdfFetched
    /\ content.v = Garbage
    /\ calls.submit = 1

\* C10: on success the data carries raw_text, the first 5,000 characters of
\* the extracted text
C10_RawTextAttached ==
    (Returned /\ result.success = TRUE) =>
        /\ "raw_text" \in DOMAIN result.data.d
        /\ raw_text.some
        /\ result.data.d["raw_text"] = PyStr(Slice(raw_text.v, 5000))

----------------------------------------------------------------------------
(* Properties of the routing *)

\* the call is extract_purchase_order or extract_invoice on an image locator
ImageCall ==
    /\ method \in {"extract_purchase_order", "extract_invoice"}
    /\ \E e \in ImageExts : EndsWith(file_url, e)

JobStages == {"textract_start", "textract_sleep", "textract_poll", "textract_page"}

MilestonesCall(exts) ==
    /\ method = "extract_milestones"
    /\ \E e \in exts : EndsWith(file_url, e)

\* the workbook fetched has a header row among its scanned rows
HeaderFound ==
    /\ content.some
    /\ content.v.fmt = "xlsx"
    /\ HeaderRow(ActiveRows(content.v)) # 0

\* C12: extract_milestones on a spreadsheet locator calls the LLM only when
\* the workbook was loaded and no header row was found, and returns the
\* heuristic milestones without the LLM when one was found; on a ".pdf"
\* locator the milestones of a successful result are the output of the LLM
\* milestone parser on the one reply received
C12_MilestonesRouting ==
    /\ (MilestonesCall(SpreadsheetExts) /\ (pc = "openai" \/ calls.llm > 0)) =>
          /\ content.some
          /\ content.v.fmt = "xlsx"
          /\ ~HeaderFound
    /\ (MilestonesCall(SpreadsheetExts) /\ HeaderFound) =>
          /\ Returned
          /\ calls.llm = 0
          /\ result = Success(PyDict([milestones |-> PyList(HeuristicMilestones(content.v))]))
    /\ (MilestonesCall({ExtPdf}) /\ Returned /\ result.success = TRUE) =>
          /\ calls.llm = 1
          /\ result = Success(PyDict([milestones |-> _parse_milestones_with_gpt(reply)]))

\* C12 witness: a workbook without a header row went to the LLM, whose
\* milestones were returned
C12_Witness ==
    /\ MilestonesCall(SpreadsheetExts)
    /\ Returned
    /\ calls.llm = 1
    /\ result = Success(PyDict([milestones |-> MilestoneArray]))

----------------------------------------------------------------------------
(* Properties of the spreadsheet extractor and of the heuristic parser *)

RECURSIVE ExpandRange(_, _, _)
\* the characters of the runs t[lo..hi]
ExpandRange(t, lo, hi) ==
    IF lo > hi THEN <<>>
    ELSE IF lo = hi THEN [i \in 1..t[lo].n |-> t[lo].c]
    ELSE ExpandRange(t, lo, (lo + hi) \div 2) \o ExpandRange(t, ((lo + hi) \div 2) + 1, hi)

\* the characters of a text
TextChars(t) == ExpandRange(t, 1, Len(t))

\* the number of lines of a text that is not empty
LineCount(t) == 1 + Cardinality({i \in 1..Len(TextChars(t)) : TextChars(t)[i] = "\n"})

\* the spreadsheet text extractor has returned the text of a workbook
SheetTextExtracted ==
    /\ content.some
    /\ content.v.fmt = "xlsx"
    /\ raw_text.some

\* the positions <<sheet, row>> of the rows with a cell that is not None
FilledRows(sheets) ==
    {sr \in {<<si, ri>> : si \in 1..Len(sheets), ri \in 1..HeaderScanRows + 3} :
        /\ sr[2] <= Len(sheets[sr[1]].rows)
        /\ \E ci \in 1..Len(sheets[sr[1]].rows[sr[2]]) : sheets[sr[1]].rows[sr[2]][ci].t # "none"}

\* C13: the text extracted from a workbook holds the string form of every
\* cell whose value is not None, 0 and False included, and has one line per
\* sheet marker and one per row with such a cell
C13_EveryCellInText ==
    SheetTextExtracted =>
        /\ \A sr \in FilledRows(content.v.sheets) :
              \A ci \in 1..Len(content.v.sheets[sr[1]].rows[sr[2]]) :
                 LET cell == content.v.sheets[sr[1]].rows[sr[2]][ci]
                 IN  cell.t # "none" => Contains(TextChars(raw_text.v), CellStr(cell))
        /\ LineCount(raw_text.v) =
              Len(content.v.sheets) + Cardinality(FilledRows(content.v.sheets))

\* the rows of a sheet with their row numbers
Numbered(rows) == [i \in 1..Len(rows) |-> [i |-> i, row |-> rows[i]]]

\* the data rows under the header row h that give a title and a percentage
QualifyingRows(rows, h) ==
    SelectSeq(Numbered(rows),
              LAMBDA r : r.i > h /\ RowQualifies(ClassifyRow(EmptyDict, r.row)))

\* the milestones of the schedule ("Mobilization", 10, 2024-01-15),
\* ("Final Delivery", 90, 2024-12-01)
ScheduleMilestones ==
    <<PyDict([title |-> PyStr(Chars(<<"M", "o", "b", "i", "l", "i", "z", "a", "t", "i", "o", "n">>)),
              description |-> PyNull,
              expected_date |-> PyStr(Chars(<<"2", "0", "2", "4", "-", "0", "1", "-", "1", "5">>)),
              payment_percentage |-> PyNum(10)]),
      PyDict([title |-> PyStr(Chars(<<"F", "i", "n", "a", "l", " ", "D", "e", "l", "i", "v", "e", "r", "y">>)),
              description |-> PyNull,
              expected_date |-> PyStr(Chars(<<"2", "0", "2", "4", "-", "1", "2", "-", "0", "1">>)),
              payment_percentage |-> PyNum(90)])>>

\* C14: when a header row is found among the first 10 rows of the active
\* sheet, extract_milestones has returned without any LLM call, with one
\* milestone per qualifying row under the header row, in row order, and none
\* for the rows at or above it; the schedule with the header ("Milestone
\* Description", "Payment %") yields exactly its two milestones
C14_HeuristicMilestones ==
    (MilestonesCall(SpreadsheetExts) /\ HeaderFound) =>
        LET rows == ActiveRows(content.v)
            kept == QualifyingRows(rows, HeaderRow(rows))
        IN  /\ Returned
            /\ calls.llm = 0
            /\ result.success = TRUE
            /\ result.data.d.milestones.l =
                  [k \in 1..Len(kept) |-> MilestoneOf(ClassifyRow(EmptyDict, kept[k].row))]
            /\ (content.v = Xlsx(<<ScheduleSheet>>)
                  => result.data.d.milestones.l = ScheduleMilestones)
            /\ (content.v = Xlsx(<<NoDataSheet>>) => result.data.d.milestones.l = <<>>)

\* C14 witness: the schedule was parsed into its two milestones
C14_Witness ==
    /\ MilestonesCall(SpreadsheetExts)
    /\ Returned
    /\ content = Some(Xlsx(<<ScheduleSheet>>))
    /\ Len(result.data.d.milestones.l) = 2

----------------------------------------------------------------------------
(* Properties of the OCR job client *)

TerminalStatuses == {"SUCCEEDED", "FAILED", "TIMED_OUT"}

\* the place of a status on the path SUBMITTED -> RUNNING -> terminal
StatusRank(st) ==
    CASE st = "NONE" -> 0
      [] st = "SUBMITTED" -> 1
      [] st = "RUNNING" -> 2
      [] st \in TerminalStatuses -> 3

\* one step of the client keeps to the life cycle of the job
LifecycleStep ==
    /\ status' # status =>
          /\ StatusRank(status') > StatusRank(status)
          /\ (status = "NONE" => status' = "SUBMITTED")
    /\ status \in TerminalStatuses => status' = status
    /\ calls'.submit # calls.submit =>
          /\ status = "NONE"
          /\ calls.submit = 0
          /\ calls'.submit = 1

\* C15: the status of the OCR job, as the client observes it, only moves
\* forward along SUBMITTED -> RUNNING -> {SUCCEEDED, FAILED, TIMED_OUT} and
\* a terminal status never changes; after FAILED or TIMED_OUT the client makes
\* no further call for the job, after SUCCEEDED it only reads the result
\* pages of the job, which leaves the status as it is; the document is
\* submitted at most once in an extraction call
C15_JobLifecycle ==
    /\ [](/\ status \in {"NONE", "SUBMITTED", "RUNNING"} \cup TerminalStatuses
          /\ (status \in {"FAILED", "TIMED_OUT"} => pc \notin JobStages)
          /\ (status = "SUCCEEDED" => pc \notin {"textract_start", "textract_sleep", "textract_poll"})
          /\ calls.submit <= 1)
    /\ [][LifecycleStep]_vars

\* C15 witness: a job seen as SUCCEEDED was read once more, for its second
\* result page, and the call has returned with the job still SUCCEEDED
C15_Witness ==
    /\ Returned
    /\ status = "SUCCEEDED"
    /\ Len(served) = 2
    /\ calls.submit = 1

----------------------------------------------------------------------------
(* Properties of the envelope *)

\* C16: an envelope returned with success=true carries data, an object, and
\* no error; one returned with success=false carries an error and no data
C16_EnvelopeShape ==
    Returned =>
        /\ (result.success = TRUE =>
              /\ DOMAIN result = {"success", "data"}
              /\ result.data.t = "dict")
        /\ (result.success = FALSE =>
              /\ DOMAIN result = {"success", "error"}
              /\ result.error.msg # "")

\* C16 witness: extract_from_bytes has returned the milestones of an upload
C16_Witness ==
    /\ Returned
    /\ method = "extract_from_bytes"
    /\ document_type = "milestone"
    /\ result.success = TRUE
    /\ "milestones" \in DOMAIN result.data.d

\* the step in which the poll loop ends without a terminal status
TimeOutStep ==
    (pc = "textract_poll" /\ status' = "TIMED_OUT") =>
        /\ attempt = 59
        /\ slept = 120
        /\ ocr' = "timed_out"
        /\ pc' = "done"
        /\ result'.success = FALSE
        /\ calls' = calls

\* C17: each status poll is preceded by a wait of 2 time-units, the first
\* poll included; a job whose polls all report a non-terminal status is
\* given up at the 60th poll, after 120 time-units of waiting, and the call
\* returns a failure without another submit and without calling the LLM
C17_PollTimeout ==
    /\ [](/\ (pc = "textract_sleep" => attempt < 60 /\ slept = 2 * attempt)
          /\ (pc = "textract_poll" => attempt < 60 /\ slept = 2 * (attempt + 1))
          /\ (status = "RUNNING" /\ pc \in JobStages => pc = "textract_sleep" \/ pc = "textract_poll")
          /\ (status = "TIMED_OUT" =>
                /\ Returned
                /\ result.success = FALSE
                /\ calls.submit = 1
                /\ calls.llm = 0))
    /\ [][TimeOutStep]_vars

\* C17 witness: a job timed out and extract_purchase_order has returned the
\* failure
C17_Witness ==
    /\ Returned
    /\ method = "extract_purchase_order"
    /\ status = "TIMED_OUT"
    /\ ocr = "timed_out"
    /\ result.success = FALSE

\* C18: once a poll has reported FAILED the client has made no further call
\* for the job (no poll, no result page) and the extraction call has
\* returned success=false without the LLM, with "Could not extract text from
\* document" for extract_purchase_order and extract_invoice; a transport
\* error of the submit or of a poll ends the call the same way, and the
\* document is not submitted again
C18_FailedJobUnreadable ==
    /\ status = "FAILED" =>
          /\ Returned
          /\ ocr = "failed"
          /\ served = <<>>
          /\ calls.submit = 1
          /\ calls.llm = 0
          /\ result.success = FALSE
          /\ (method \in {"extract_purchase_order", "extract_invoice"}
                => result = [success |-> FALSE,
                             error |-> [msg |-> "Could not extract text from document",
                                        arg |-> <<>>]])
    /\ ocr = "error" =>
          /\ Returned
          /\ calls.submit <= 1
          /\ calls.llm = 0
          /\ result.success = FALSE
          /\ (method \in {"extract_purchase_order", "extract_invoice"}
                => result = [success |-> FALSE,
                             error |-> [msg |-> "Could not extract text from document",
                                        arg |-> <<>>]])

\* C18 witness: extract_invoice has returned the unreadable-document error
\* after its OCR job was reported FAILED
C18_Witness ==
    /\ Returned
    /\ method = "extract_invoice"
    /\ status = "FAILED"
    /\ result.success = FALSE

RECURSIVE LinesOfPages(_)
\* the texts of the LINE blocks of a sequence of result pages, page by page
LinesOfPages(pgs) ==
    IF pgs = <<>> THEN <<>>
    ELSE LET lines == SelectSeq(Head(pgs).blocks, LAMBDA b : b.BlockType = "LINE")
         IN  [i \in 1..Len(lines) |-> lines[i].Text] \o LinesOfPages(Tail(pgs))

\* C19: the result pages of a SUCCEEDED job are read in order, each once,
\* every page whose response carries a cursor is followed by the next page
\* and the reading ends at the first page without one; the text returned is
\* the texts of the LINE blocks of all these pages, the first included, in
\* the order returned, joined by newlines
C19_PagedLinesJoined ==
    /\ \A i \in 1..Len(served) :
          /\ served[i].page = i
          /\ (i < Len(served) => served[i].more)
    /\ (pc = "textract_page" =>
          /\ served # <<>>
          /\ served[Len(served)].more
          /\ next_token = Len(served) + 1)
    /\ (ocr = "text" =>
          /\ status = "SUCCEEDED"
          /\ served # <<>>
          /\ ~served[Len(served)].more
          /\ raw_text = Some(JoinText(<<Run("\n", 1)>>, LinesOfPages(served))))

\* C19 witness: a text was returned from three result pages, with LINE
\* blocks on the first and on a later page
C19_Witness ==
    /\ ocr = "text"
    /\ Len(served) = 3
    /\ \E b \in 1..Len(served[1].blocks) : served[1].blocks[b].BlockType = "LINE"
    /\ served[3].blocks[1].BlockType = "LINE"
    /\ pc \in {"openai", "done"}

\* the words that mark a header row
HeaderWords == {<<"m", "i", "l", "e", "s", "t", "o", "n", "e">>, <<"p", "a", "y", "m", "e", "n", "t">>, <<"d", "e", "s", "c", "r", "i", "p", "t", "i", "o", "n">>}

\* the row has a text cell that contains one of the words, in any case
NamesSchedule(row) ==
    \E i \in 1..Len(row) :
        /\ row[i].t = "str"
        /\ \E w \in HeaderWords : Contains(Lower(row[i].s), w)

\* the rows among the first 10 of the sheet that name a schedule
ScannedHeaders(rows) == {i \in 1..Len(rows) : i <= 10 /\ NamesSchedule(rows[i])}

\* C20: extract_milestones on a workbook takes as header row the first of
\* the first 10 rows of the active sheet with a cell that contains
\* "milestone", "payment" or "description" in any case, and returns the
\* milestones of the qualifying rows under it; when none of the first 10
\* rows is one, also when a later row is, the text of the workbook goes to
\* the LLM milestone parser, the LLM is called once and the milestones
\* returned are the output of that parser
C20_HeaderScan ==
    (MilestonesCall(SpreadsheetExts) /\ content.some /\ content.v.fmt = "xlsx") =>
        LET rows == ActiveRows(content.v)
            found == ScannedHeaders(rows)
            first == CHOOSE i \in found : \A j \in found : i <= j
        IN  /\ found # {} =>
                  /\ Returned
                  /\ calls.llm = 0
                  /\ result.success = TRUE
                  /\ result.data.d.milestones.l =
                        [k \in 1..Len(QualifyingRows(rows, first)) |->
                            MilestoneOf(ClassifyRow(EmptyDict, QualifyingRows(rows, first)[k].row))]
            /\ found = {} =>
                  /\ pc \in {"openai", "done"}
                  /\ raw_text = _extract_excel_from_bytes(content.v)
                  /\ (pc = "openai" => calls.llm = 0)
                  /\ (Returned =>
                        /\ calls.llm = 1
                        /\ prompt = Some(Slice(raw_text.v, 15000))
                        /\ result = Success(PyDict([milestones |-> _parse_milestones_with_gpt(reply)])))

\* C20 witness: a workbook whose only header row is row 11 went to the LLM
C20_Witness ==
    /\ MilestonesCall(SpreadsheetExts)
    /\ content = Some(Xlsx(<<LateHeaderSheet>>))
    /\ Returned
    /\ calls.llm = 1
    /\ result.success = TRUE

----------------------------------------------------------------------------
(* Properties of the row classification *)

\* the first cell of the row with the property P, [found |-> FALSE] if none
FirstCell(row, P(_)) ==
    IF \E i \in 1..Len(row) : P(row[i])
    THEN [found |-> TRUE,
          cell |-> row[CHOOSE i \in 1..Len(row) : P(row[i]) /\ \A j \in 1..(i - 1) : ~P(row[j])]]
    ELSE [found |-> FALSE]

IsTitleCell(c) == c.t = "str" /\ Len(c.s) > 3
IsPercentCell(c) == c.t = "int" /\ 0 < c.i /\ c.i <= 100
IsDateCell(c) == c.t = "date"

\* the heuristic parser has returned the milestones of a workbook
HeuristicReturned == MilestonesCall(SpreadsheetExts) /\ HeaderFound /\ Returned

\* the rows the milestones returned were made from, in order
EmittedRows == QualifyingRows(ActiveRows(content.v), HeaderRow(ActiveRows(content.v)))

\* C21: the title of an emitted milestone is the first string cell of its
\* row that is longer than 3 characters (as it stands, or trimmed) and is
\* itself longer than 3 characters; its payment_percentage is the first
\* numeric cell with a value in (0, 100]; its expected_date is the first
\* date cell as YYYY-MM-DD, null without one
C21_FirstMatchWins ==
    HeuristicReturned =>
        /\ Len(result.data.d.milestones.l) = Len(EmittedRows)
        /\ \A k \in 1..Len(EmittedRows) :
              LET row == EmittedRows[k].row
                  m == result.data.d.milestones.l[k].d
                  title == FirstCell(row, IsTitleCell)
                  percent == FirstCell(row, IsPercentCell)
                  date == FirstCell(row, IsDateCell)
              IN  /\ title.found
                  /\ m.title \in {PyStr(Chars(title.cell.s)), PyStr(Chars(StripChars(title.cell.s)))}
                  /\ TextLen(m.title.s) > 3
                  /\ percent.found
                  /\ m.payment_percentage = PyNum(percent.cell.i)
                  /\ m.expected_date = IF date.found THEN PyStr(Chars(DateStr(date.cell))) ELSE PyNull

\* a title was found in the row: a string cell longer than 3 characters that
\* is not blank
TitleFound(row) == \E i \in 1..Len(row) : IsTitleCell(row[i]) /\ StripChars(row[i].s) # <<>>

\* a percentage was found in the row
PercentFound(row) == \E i \in 1..Len(row) : IsPercentCell(row[i])

\* the data rows under the header row in which both were found
CompleteRows ==
    SelectSeq(Numbered(ActiveRows(content.v)),
              LAMBDA r : /\ r.i > HeaderRow(ActiveRows(content.v))
                         /\ TitleFound(r.row)
                         /\ PercentFound(r.row))

----------------------------------------------------------------------------
(* The extension of locators written in other cases and with query strings *)

UpperChar(c) == IF Find(LowerCase, c) = 0 THEN c ELSE UpperCase[Find(LowerCase, c)]

\* the ways an extension is written: as it is, in upper case, capitalised
CaseForms(e) ==
    {e, [i \in 1..Len(e) |-> UpperChar(e[i])],
        [i \in 1..Len(e) |-> IF i = 2 THEN UpperChar(e[i]) ELSE e[i]]}

\* query strings: none, empty, a parameter, and two that end like a file name
Queries == {<<>>, <<"?">>, <<"?", "v", "=", "1">>, <<"?", "x", ".", "t", "x", "t">>, <<"?", "a", "/", "b", ".", "p", "n", "g">>}

\* the locators of Locators with their extension in each case form and with
\* each query string appended
VariantLocators ==
    {p \o <<"k">> \o c \o q : p \in Prefixes, c \in UNION {CaseForms(e) : e \in Extensions}, q \in Queries}

\* the first step of the URL-based entry points on these locators
LocatorNext ==
    \/ \E url \in VariantLocators : extract_purchase_order(url)
    \/ \E url \in VariantLocators : extract_invoice(url)
    \/ \E url \in VariantLocators : extract_milestones(url)

LocatorSpec == Init /\ [][LocatorNext]_vars

\* what the entry point m selects for the locator url
Selected(m, url) ==
    IF m = "extract_milestones" THEN MilestonesDispatch(_get_extension(url))
    ELSE UrlDispatch(_get_extension(url))

\* C23: a locator whose extension is written in another case, or that has a
\* query string appended, has the extension of the plain locator, in lower
\* case, and the entry point selects for it what it selects for the plain
\* locator: the same extraction stage, or the same unsupported-type failure
C23_ExtensionInsensitive ==
    pc # "idle" =>
        \A p \in Prefixes, e \in Extensions :
            (\E c \in CaseForms(e), q \in Queries : file_url = p \o <<"k">> \o c \o q) =>
                /\ _get_extension(file_url) = e
                /\ _get_extension(p \o <<"k">> \o e) = e
                /\ [pc |-> pc, result |-> result] = Selected(method, p \o <<"k">> \o e)

\* C23 witness: a locator ending in ".PDF?x.txt" went the way of a PDF
C23_Witness ==
    /\ method = "extract_purchase_order"
    /\ file_url = StorePrefix \o <<"k", ".", "P", "D", "F", "?", "x", ".", "t", "x", "t">>
    /\ pc = "download"

----------------------------------------------------------------------------
(* Properties of the requests sent *)

\* the object _download_file reads for the locator of the call
FetchedObject == IF asked.fetch # NoRequest THEN asked.fetch ELSE DownloadRequest(file_url)

\* C24: the bucket and key the OCR service is asked to read, by the job
\* submit for a PDF and by the detect call for an image, are the bucket and
\* key the storage fetch reads for the locator of the call
C24_OcrReadsFetchedObject ==
    asked.ocr # NoRequest =>
        /\ FetchedObject.via = "s3"
        /\ asked.ocr = [bucket |-> FetchedObject.bucket, key |-> FetchedObject.key]

----------------------------------------------------------------------------
(* Properties of the LLM client *)

\* the JSON document v between code-fence markers, with and without the
\* language tag
FencedForms(v) ==
    {<<Fence, JsonTag, Newline, JsonDoc(v), Newline, Fence>>,
     <<Fence, Newline, JsonDoc(v), Newline, Fence>>}

\* the LLM has replied with content
Replied == calls.llm = 1 /\ reply.ok /\ reply.content.some

\* C25: a reply that is a JSON document between a leading and a trailing
\* code-fence marker, with or without the "json" tag, parses to the value of
\* the document, and the call returns what it returns for the bare document
C25_FencedReplyParsed ==
    Replied =>
        \A v \in JsonValues :
            reply.content.v \in FencedForms(v) =>
                /\ ParseReply(reply) = [ok |-> TRUE, v |-> v]
                /\ result = Finish(method, document_type, raw_text.v,
                                   ReplyContent(Some(<<JsonDoc(v)>>)))

----------------------------------------------------------------------------
(* Properties of the order of the stages *)

\* one step of a call keeps to the order fetch, OCR job, LLM
StageStep ==
    /\ calls'.fetch # calls.fetch =>
          calls.fetch = 0 /\ calls.submit = 0 /\ calls.detect = 0 /\ calls.llm = 0
    /\ calls'.submit # calls.submit =>
          calls.fetch = 1 /\ calls.submit = 0 /\ calls.llm = 0
    /\ pc' \in JobStages =>
          calls'.fetch = 1 /\ calls'.llm = 0
    /\ calls'.llm # calls.llm =>
          calls.llm = 0 /\ pc \notin JobStages /\ pc' = "done"

\* C26: in one call of a URL-based entry point the storage fetch comes
\* before the OCR job (submit, then polls) and the OCR job before the LLM
\* call, which is the last stage; the fetch, the submit and the LLM call are
\* each made at most once, whatever the services answer
C26_StagesInOrderOnce ==
    /\ [](method \in UrlMethods =>
             /\ calls.fetch <= 1
             /\ calls.submit <= 1
             /\ calls.llm <= 1
             /\ (calls.submit = 1 => calls.fetch = 1)
             /\ (pc \in JobStages => calls.submit = 1 \/ pc = "textract_start")
             /\ (calls.llm = 1 => Returned))
    /\ [][method' \in UrlMethods => StageStep]_vars

\* C26 witness: a call went through the fetch, an OCR job and the LLM call,
\* each once, and returned
C26_Witness ==
    /\ method \in UrlMethods
    /\ Returned
    /\ calls = [fetch |-> 1, submit |-> 1, detect |-> 0, llm |-> 1]
    /\ status = "SUCCEEDED"


----------------------------------------------------------------------------
(* Properties of the prompt *)

\* the text p is the beginning of the text t, run by run
IsPrefixText(p, t) ==
    \/ p = <<>>
    \/ /\ Len(p) <= Len(t)
       /\ \A i \in 1..(Len(p) - 1) : p[i] = t[i]
       /\ p[Len(p)].c = t[Len(p)].c
       /\ p[Len(p)].n <= t[Len(p)].n

\* the smaller of two numbers
Min(a, b) == IF a <= b THEN a ELSE b

\* C27: for each of the three schemas the document text of the prompt sent
\* to the LLM is the first 15,000 characters of the extracted text, and the
\* whole text when it is shorter
C27_PromptIsFirst15000 ==
    calls.llm = 1 =>
        /\ method \in UrlMethods \cup {"extract_from_bytes"}
        /\ raw_text.some
        /\ prompt.some
        /\ IsPrefixText(prompt.v, raw_text.v)
        /\ TextLen(prompt.v) = Min(TextLen(raw_text.v), 15000)

\* C27 witness: a text of more than 15,000 characters was put in the prompt
\* of the milestone schema, cut to 15,000
C27_Witness ==
    /\ calls.llm = 1
    /\ method = "extract_milestones"
    /\ TextLen(raw_text.v) > 15000
    /\ TextLen(prompt.v) = 15000

----------------------------------------------------------------------------
(* Properties of uploads *)

RECURSIVE PagesLen(_, _)
\* the characters of the first n pages together with the blank lines between
\* the pages that have text
PagesLen(pgs, n) ==
    IF n = 0 THEN 0
    ELSE IF TextLen(pgs[n]) = 0 THEN PagesLen(pgs, n - 1)
    ELSE IF PagesLen(pgs, n - 1) = 0 THEN TextLen(pgs[n])
    ELSE PagesLen(pgs, n - 1) + 2 + TextLen(pgs[n])

\* the length of the text the PDF library reads from the uploaded bytes, 0
\* when it reads none
DirectLen ==
    IF content.some /\ content.v.fmt = "pdf"
    THEN PagesLen(content.v.pages, Len(content.v.pages))
    ELSE 0

\* an upload with a ".pdf" file name and a document type of one of the three
\* schemas
PdfUpload ==
    /\ method = "extract_from_bytes"
    /\ FilenameExtension(filename) = ExtPdf
    /\ document_type \in {"purchase_order", "invoice", "milestone"}

\* C28: extract_from_bytes makes no storage fetch and no OCR request (submit,
\* poll, detect); for a ".pdf" file name a direct text of 1 to 499
\* characters is accepted and goes to the LLM, and a PDF with no direct text
\* has returned "Could not extract text from document" without an LLM call
C28_UploadsDirectOnly ==
    method = "extract_from_bytes" =>
        /\ calls.fetch = 0 /\ calls.submit = 0 /\ calls.detect = 0
        /\ status = "NONE" /\ served = <<>> /\ attempt = 0
        /\ asked = [fetch |-> NoRequest, ocr |-> NoRequest]
        /\ pc \in {"openai", "done"}
        /\ (PdfUpload /\ 0 < DirectLen /\ DirectLen < 500 =>
              /\ raw_text.some /\ TextLen(raw_text.v) = DirectLen
              /\ IF Returned
                 THEN calls.llm = 1 /\ result # Failure(UnreadableMsg, <<>>)
                 ELSE pc = "openai")
        /\ (PdfUpload /\ DirectLen = 0 =>
              /\ Returned
              /\ calls.llm = 0
              /\ result = Failure(UnreadableMsg, <<>>))

\* C28 witness: an uploaded PDF whose direct text has between 1 and 499
\* characters went to the LLM and the call returned a success
C28_Witness ==
    /\ PdfUpload
    /\ 0 < DirectLen /\ DirectLen < 500
    /\ Returned
    /\ calls = [fetch |-> 0, submit |-> 0, detect |-> 0, llm |-> 1]
    /\ result.success

\* an uploaded PDF without direct text was refused
C28_WitnessNoText ==
    /\ PdfUpload
    /\ content.v.fmt = "pdf"
    /\ DirectLen = 0
    /\ Returned
    /\ result = Failure(UnreadableMsg, <<>>)

----------------------------------------------------------------------------
(* Termination of the OCR job client *)

\* the cursors a response may carry; the client treats a cursor as opaque and
\* only tests it for truth
Cursors == 2..(MaxPages + 1)

\* one iteration of the pagination loop on a response that carries no blocks
\* and one more cursor, any cursor but the one just sent: the loop goes on.
\* The count of the pages and the record of the responses stop at MaxPages.
TextractPageAgain ==
    /\ pc = "textract_page"
    /\ \E c \in Cursors \ {next_token} : next_token' = c
    /\ all_blocks' = all_blocks \o <<>>
    /\ pages' = IF pages < MaxPages THEN pages + 1 ELSE pages
    /\ served' = IF Len(served) < MaxPages
                 THEN Append(served, Page(next_token, <<>>, TRUE))
                 ELSE served
    /\ UNCHANGED <<pc, result, raw_text, ocr, attempt, slept, asked, method, file_url,
                   filename, document_type, content, status, reply, prompt, calls>>

\* the state in which the client enters its poll loop: the fetch returned a
\* scanned PDF, one without direct text, the locator has a host and the job
\* was submitted
JobSubmitted ==
    /\ pc = "textract_sleep"
    /\ method \in UrlMethods
    /\ file_url = BucketHostPrefix \o <<"k">> \o ExtPdf
    /\ filename = <<>>
    /\ document_type = "none"
    /\ content = Some(Pdf(<<>>))
    /\ raw_text = None
    /\ attempt = 0
    /\ slept = 0
    /\ all_blocks = <<>>
    /\ pages = 0
    /\ next_token = 0
    /\ status = "SUBMITTED"
    /\ served = <<>>
    /\ asked = [fetch |-> DownloadRequest(file_url), ocr |-> TextractLocation(file_url)]
    /\ ocr = "none"
    /\ reply = NoReply
    /\ prompt = None
    /\ calls = [fetch |-> 1, submit |-> 1, detect |-> 0, llm |-> 0]
    /\ result = NoResult

\* the steps of the poll loop and of the pagination loop, with a service free
\* to answer any cursor
LiveNext ==
    \/ TextractSleep
    \/ TextractPoll
    \/ TextractPage
    \/ TextractPageAgain

\* one run of the two loops of the client.  Every call of the service returns
\* and the code after it runs: a client that can take a step takes one.
LiveSpec == JobSubmitted /\ [][LiveNext]_vars /\ WF_vars(LiveNext)

\* C29: provided every call of the OCR service returns, the OCR job client
\* returns: a call that is inside the client is later outside it, whatever
\* cursors the responses carry
C29_JobClientTerminates == (pc \in JobStages) ~> (pc \notin JobStages)

\* the client makes at most max_attempts status polls and sleeps before each
PollsBounded ==
    /\ attempt < max_attempts
    /\ slept <= PollInterval * max_attempts

====
